---- MODULE Spec2Model ----
(***************************************************************************)
(* Model of the Rock tuning C interface (mlir/lib/CAPI/Dialect/Rock.cpp)   *)
(* and of the WMMA instruction group selector                              *)
(* (mlir/lib/Dialect/Rock/IR/WmmaInsnGroup.cpp).                           *)
(*                                                                         *)
(* The performance table itself (rock::tuningTableCreate / Update /        *)
(* Lookup), rock::tuningSetStr, rock::getTuningProblemStr and              *)
(* rock::isSplitKFaster live outside these two files; they are modelled    *)
(* from the design document and marked as such where they are defined.     *)
(***************************************************************************)
EXTENDS Integers, Sequences, FiniteSets, TLC

VARIABLES table, lock, pc, frame, minTime, committed, wmma, splitk, enc

vars == <<table, lock, pc, frame, minTime, committed, wmma, splitk, enc>>

tableVars == <<table, lock, pc, frame, minTime, committed>>

\* ------------------------------------------------------------------------
\* Bounds of the model
\* ------------------------------------------------------------------------
MaxTime == 2
NumRacers == 3

\* Two workers that call update and lookup-and-apply over and over, on two
\* signatures (specification Spec); NumRacers workers that make one call
\* each, all on the same signature (specification SpecRace).
Workers == {1, 2}
Racers == 1..NumRacers
Times == 0..MaxTime
RaceTimes == 1..NumRacers

\* Workload signatures (problem keys) and perf-config strings.
Sigs == {"sigA", "sigB"}
Cfgs == {"cfg1", "cfg2"}
RaceSig == "sigA"

NoWorker == 0

\* ------------------------------------------------------------------------
\* Performance table: data
\* ------------------------------------------------------------------------

\* The stored value of a signature: (perf-config string, measured time).
Entry(cfg, t) == [perfConfig |-> cfg, time |-> t]

\* A value-initialised map slot: empty string, time zero.
DefaultEntry == Entry("", 0)

\* Marker for "no entry" in a worker's local copy of the search result.
NoEntry == [perfConfig |-> "<none>", time |-> -1]

Find(t, key) == IF key \in DOMAIN t THEN t[key] ELSE NoEntry

Put(t, key, e) == [x \in (DOMAIN t) \cup {key} |-> IF x = key THEN e ELSE t[x]]

\* rock::tuningTableCreate(): a new, empty table.
tuningTableCreate == [x \in {} |-> NoEntry]

\* Mutant: the wrapper hands out a table that already holds an entry.
mlirRockTuningTableCreate_Stale == [x \in {"sigA"} |-> Entry("cfg1", 1)]

\* mlirRockTuningTableCreate wraps the table made by rock::tuningTableCreate.
mlirRockTuningTableCreate == tuningTableCreate

\* The reader/writer lock guarding the table.
LockFree == [writer |-> NoWorker, readers |-> {}]

\* Mutant: update does not wait for the lock.
CanWriteLock_NoExclusion(l) == TRUE

CanWriteLock(l) == l.writer = NoWorker /\ l.readers = {}

\* Mutant: lookup does not wait for a writer to finish.
CanReadLock_Unguarded(l) == TRUE

CanReadLock(l) == l.writer = NoWorker

\* What the caller passed: update(signature, candidateString, time), or a
\* lookup-and-apply of a program with that signature.
Call(sig, cfg, t) == [signature |-> sig, candidateString |-> cfg, time |-> t]

NoCall == Call("", "", 0)

\* A worker that is in no call.  call is what the caller passed; problem,
\* perfConfig and time are the callee's parameters and buffer; found is the
\* callee's search result; ok is the lookup's result; setStr is the outcome of
\* rock::tuningSetStr and applied the string it was given; ret is the value
\* the C function returns.
IdleFrame == [call |-> NoCall, problem |-> "", perfConfig |-> "", time |-> 0,
              found |-> NoEntry, ok |-> FALSE, setStr |-> "notcalled",
              applied |-> "", ret |-> FALSE]

\* ------------------------------------------------------------------------
\* mlirRockTuningUpdateTable
\* ------------------------------------------------------------------------

\* Mutant: the two string arguments are forwarded in the wrong order.
UpdateTableArgs_Swapped(problemKey, perfStr, time) ==
  [problem |-> perfStr, perfConfig |-> problemKey, time |-> time]

\* The wrapper unwraps its arguments and forwards them, in this order, to
\* rock::tuningTableUpdate(pTable, problem, perfConfig, time).
UpdateTableArgs(problemKey, perfStr, time) ==
  [problem |-> problemKey, perfConfig |-> perfStr, time |-> time]

\* rock::tuningTableUpdate: replace only when the new time is strictly
\* smaller than the stored one.
IsBetter(time, stored) == time < stored.time

\* Entry into the call.
UpdateCallWith(w, problemKey, perfStr, time) ==
  /\ pc[w] = "idle"
  /\ LET a == UpdateTableArgs(problemKey, perfStr, time) IN
       frame' = [frame EXCEPT ![w] = [IdleFrame EXCEPT !.call = Call(problemKey, perfStr, time),
                                                       !.problem = a.problem,
                                                       !.perfConfig = a.perfConfig,
                                                       !.time = a.time]]
  /\ pc' = [pc EXCEPT ![w] = "u_lock"]
  /\ UNCHANGED <<wmma, splitk, enc, table, lock, minTime, committed>>

UpdateCall(w) ==
  \E s \in Sigs, c \in Cfgs, t \in Times : UpdateCallWith(w, s, c, t)

\* Take the table's lock exclusively and search for the signature.
UpdateLock(w) ==
  /\ pc[w] = "u_lock"
  /\ CanWriteLock(lock)
  /\ lock' = [lock EXCEPT !.writer = w]
  /\ frame' = [frame EXCEPT ![w].found = Find(table, frame[w].problem)]
  /\ pc' = [pc EXCEPT ![w] = "u_find"]
  /\ UNCHANGED <<wmma, splitk, enc, table, minTime, committed>>

\* An entry exists and the new time is equal or worse: leave it, return false.
UpdateReject(w) ==
  /\ pc[w] = "u_find"
  /\ frame[w].found # NoEntry
  /\ ~IsBetter(frame[w].time, frame[w].found)
  /\ frame' = [frame EXCEPT ![w].ret = FALSE]
  /\ pc' = [pc EXCEPT ![w] = "u_unlock"]
  /\ UNCHANGED <<wmma, splitk, enc, table, lock, minTime, committed>>

\* No entry: the map creates a value-initialised slot for the signature.
UpdateSlot(w) ==
  /\ pc[w] = "u_find"
  /\ frame[w].found = NoEntry
  /\ table' = Put(table, frame[w].problem, DefaultEntry)
  /\ pc' = [pc EXCEPT ![w] = "u_assign"]
  /\ UNCHANGED <<wmma, splitk, enc, lock, frame, minTime, committed>>

\* Store (perfConfig, time) in the slot and return true.
UpdateAssign(w) ==
  /\ \/ pc[w] = "u_assign"
     \/ /\ pc[w] = "u_find"
        /\ frame[w].found # NoEntry
        /\ IsBetter(frame[w].time, frame[w].found)
  /\ table' = Put(table, frame[w].problem, Entry(frame[w].perfConfig, frame[w].time))
  /\ frame' = [frame EXCEPT ![w].ret = TRUE]
  /\ pc' = [pc EXCEPT ![w] = "u_unlock"]
  /\ UNCHANGED <<wmma, splitk, enc, lock, minTime, committed>>

MinOf(a, b) == IF a <= b THEN a ELSE b

\* Release the lock; the call has taken effect.  minTime and committed are
\* history: the smallest time submitted so far for each signature, and the
\* table as the last completed update left it.
UpdateUnlock(w) ==
  /\ pc[w] = "u_unlock"
  /\ lock' = [lock EXCEPT !.writer = NoWorker]
  /\ LET c == frame[w].call IN
       minTime' = Put(minTime, c.signature,
                      IF c.signature \in DOMAIN minTime
                        THEN MinOf(minTime[c.signature], c.time)
                        ELSE c.time)
  /\ committed' = table
  /\ frame' = [frame EXCEPT ![w].found = NoEntry]
  /\ pc' = [pc EXCEPT ![w] = "u_done"]
  /\ UNCHANGED <<wmma, splitk, enc, table>>

\* The caller has the result and may start another call.
UpdateReturn(w) ==
  /\ pc[w] = "u_done"
  /\ frame' = [frame EXCEPT ![w] = IdleFrame]
  /\ pc' = [pc EXCEPT ![w] = "idle"]
  /\ UNCHANGED <<wmma, splitk, enc, table, lock, minTime, committed>>

\* ------------------------------------------------------------------------
\* mlirRockTuningSetFromTable  (lookup, then apply)
\* ------------------------------------------------------------------------

\* Entry into the call.  The module's workload signature is the key that
\* rock::tuningTableLookup computes from it; perfConfig is the fresh, empty
\* SmallString the wrapper hands to the lookup.
LookupCall(w) ==
  /\ pc[w] = "idle"
  /\ \E s \in Sigs :
       frame' = [frame EXCEPT ![w] = [IdleFrame EXCEPT !.call = Call(s, "", 0),
                                                       !.problem = s]]
  /\ pc' = [pc EXCEPT ![w] = "l_lock"]
  /\ UNCHANGED <<wmma, splitk, enc, table, lock, minTime, committed>>

\* rock::tuningTableLookup: take the lock shared, search, and copy the
\* stored perf-config string into the caller's buffer on a hit.
LookupLock(w) ==
  /\ pc[w] = "l_lock"
  /\ CanReadLock(lock)
  /\ lock' = [lock EXCEPT !.readers = @ \cup {w}]
  /\ LET e == Find(table, frame[w].problem) IN
       frame' = [frame EXCEPT ![w].ok = (e # NoEntry),
                              ![w].perfConfig = IF e # NoEntry THEN e.perfConfig ELSE ""]
  /\ pc' = [pc EXCEPT ![w] = "l_held"]
  /\ UNCHANGED <<wmma, splitk, enc, table, minTime, committed>>

\* Mutant: the result of the lookup is ignored.
ReturnsOnLookup_Never(lookupOk) == FALSE

\* if (failed(rock::tuningTableLookup(pTable, mod, perfConfig))) return false;
ReturnsOnLookup(lookupOk) == ~lookupOk

\* The string the wrapper hands to rock::tuningSetStr.
SetStrArg(perfConfig) == perfConfig

\* The lookup returns (releasing the lock); the wrapper returns false on a
\* miss and goes on to apply on a hit.
LookupUnlock(w) ==
  /\ pc[w] = "l_held"
  /\ lock' = [lock EXCEPT !.readers = @ \ {w}]
  /\ IF ReturnsOnLookup(frame[w].ok)
       THEN /\ frame' = [frame EXCEPT ![w].ret = FALSE]
            /\ pc' = [pc EXCEPT ![w] = "l_done"]
       ELSE /\ frame' = frame
            /\ pc' = [pc EXCEPT ![w] = "l_apply"]
  /\ UNCHANGED <<wmma, splitk, enc, table, minTime, committed>>

\* The outcomes of rock::tuningSetStr(mod, perfConfig): it succeeds, or it
\* fails because the program does not match the configuration.
tuningSetStrResults == {"success", "failure"}

\* return rock::tuningSetStr(mod, perfConfig);
Apply(w) ==
  /\ pc[w] = "l_apply"
  /\ \E r \in tuningSetStrResults :
       frame' = [frame EXCEPT ![w].applied = SetStrArg(frame[w].perfConfig),
                              ![w].setStr = r,
                              ![w].ret = (r = "success")]
  /\ pc' = [pc EXCEPT ![w] = "l_done"]
  /\ UNCHANGED <<wmma, splitk, enc, table, lock, minTime, committed>>

LookupReturn(w) ==
  /\ pc[w] = "l_done"
  /\ frame' = [frame EXCEPT ![w] = IdleFrame]
  /\ pc' = [pc EXCEPT ![w] = "idle"]
  /\ UNCHANGED <<wmma, splitk, enc, table, lock, minTime, committed>>

\* ------------------------------------------------------------------------
\* WmmaInsn (WmmaInsnGroup.cpp)
\* ------------------------------------------------------------------------
MaxTileOctets == 8
MaxK == 8

\* Element types: kind, bit width and, for integers, signedness.
FloatType(k, w) == [kind |-> k, width |-> w, sign |-> "none"]

IntType(w, sg) == [kind |-> "int", width |-> w, sign |-> sg]

F16 == FloatType("float", 16)
BF16 == FloatType("bfloat", 16)
F32 == FloatType("float", 32)
I8 == IntType(8, "signless")
UI8 == IntType(8, "unsigned")
I32 == IntType(32, "signless")
NoType == FloatType("none", 0)

ElemTypes == {F16, BF16, F32, I8, UI8, I32}
WaveSizes == {16, 32, 64}
TileSizes == {-16, -8, 0, 1, 15, 17} \cup {8 * k : k \in 1..MaxTileOctets}
KValues == -1..MaxK

\* Type::isF16, Type::isBF16, Type::isInteger(width)
isF16(t) == t.kind = "float" /\ t.width = 16

isBF16(t) == t.kind = "bfloat" /\ t.width = 16

isInteger(t, w) == t.kind = "int" /\ t.width = w

\* VectorType::get({len}, elementType)
VectorType(len, t) == [shape |-> <<len>>, elementType |-> t]

\* Remainder and quotient of int64_t operands (truncation towards zero).
CRem(a, b) == IF a >= 0 THEN a % b ELSE -((-a) % b)

CDiv(a, b) == IF a >= 0 THEN a \div b ELSE -((-a) \div b)

\* Mutant: every operand type accumulates in f32.
getRetType_AlwaysF32(inputType) == F32

getRetType(inputType) == IF isInteger(inputType, 8) THEN I32 ELSE F32

inputLen == 16
outLen == 8
outStride == 2

\* Mutant: wave64 is let through as well.
WaveSizeSupported_Wave64(waveSize) == waveSize \in {32, 64}

\* if (waveSize != 32) return failure();
WaveSizeSupported(waveSize) == waveSize = 32

\* failure()
Failure == [ok |-> FALSE]

\* The instruction chosen for the operand type, "" when there is none.
InsnFor(elementTypeA) ==
  IF isF16(elementTypeA) THEN "rocdl.wmma.f32.16x16x16.f16"
  ELSE IF isBF16(elementTypeA) THEN "rocdl.wmma.f32.16x16x16.bf16"
  ELSE IF isInteger(elementTypeA, 8) THEN "rocdl.wmma.i32.16x16x16.iu8"
  ELSE ""

\* WmmaInsn::select
select(elementTypeA, elementTypeB, waveSize, mPerWave, nPerWave) ==
  IF elementTypeA # elementTypeB THEN Failure
  ELSE IF ~WaveSizeSupported(waveSize) THEN Failure
  ELSE IF CRem(mPerWave, inputLen) # 0 THEN Failure
  ELSE IF CRem(nPerWave, inputLen) # 0 THEN Failure
  ELSE IF InsnFor(elementTypeA) = "" THEN Failure
  ELSE [ok |-> TRUE,
        insn |-> InsnFor(elementTypeA),
        inputLen |-> inputLen,
        outLen |-> outLen,
        outStride |-> outStride,
        mRepeats |-> CDiv(mPerWave, inputLen),
        nRepeats |-> CDiv(nPerWave, inputLen),
        argTypeA |-> VectorType(inputLen, elementTypeA),
        argTypeB |-> VectorType(inputLen, elementTypeB),
        retType |-> VectorType(outLen, getRetType(elementTypeA))]

\* Mutant: the boundary value is rejected.
isCoherentWithK_Strict(self, kpack, kPerBlock) ==
  [self |-> self, ret |-> ~(kPerBlock * kpack <= self.inputLen)]

\* WmmaInsn::isCoherentWithK: the value returned and the object after the call.
isCoherentWithK(self, kpack, kPerBlock) ==
  [self |-> self, ret |-> ~(kPerBlock * kpack < self.inputLen)]

\* The last call on the selector: its arguments, the descriptor it returned
\* or was called on (insn), the descriptor before the call and the result of
\* the coherency check.
NoWmma == [op |-> "none", a |-> NoType, b |-> NoType, waveSize |-> 0,
           mPerWave |-> 0, nPerWave |-> 0, insn |-> Failure, before |-> Failure,
           kpack |-> 0, kPerBlock |-> 0, coherent |-> FALSE]

\* The queries a caller may put to the selector.
SelectQueries ==
  {[NoWmma EXCEPT !.op = "query", !.a = a, !.b = b, !.waveSize = ws,
                  !.mPerWave = m, !.nPerWave = n] :
     a \in ElemTypes, b \in ElemTypes, ws \in WaveSizes,
     m \in TileSizes, n \in TileSizes}

SelectCall ==
  /\ wmma.op = "query"
  /\ wmma' = [wmma EXCEPT !.op = "select",
                          !.insn = select(wmma.a, wmma.b, wmma.waveSize,
                                          wmma.mPerWave, wmma.nPerWave)]
  /\ UNCHANGED <<tableVars, splitk, enc>>

IsCoherentWithKCall ==
  /\ wmma.insn.ok
  /\ \E kpack \in KValues, kPerBlock \in KValues :
       LET r == isCoherentWithK(wmma.insn, kpack, kPerBlock) IN
         wmma' = [wmma EXCEPT !.op = "isCoherentWithK", !.before = wmma.insn,
                              !.insn = r.self, !.kpack = kpack,
                              !.kPerBlock = kPerBlock, !.coherent = r.ret]
  /\ UNCHANGED <<tableVars, splitk, enc>>

\* ------------------------------------------------------------------------
\* mlirIsSplitKFaster
\* ------------------------------------------------------------------------
MaxDim == 2

Dims == 1..MaxDim
TuningLevels == {"Quick", "Full", "Exhaustive"}
Likelihoods == {"never", "maybe", "always"}

\* What rock::isSplitKFaster(gDim, mDim, nDim, kDim, numCUs) may return.
isSplitKFasterResults(gDim, mDim, nDim, kDim, numCUs) == Likelihoods

\* Mutant: the short-circuit tests the wrong level.
IsQuickLevel_Full(tuningLevel) == tuningLevel = "Full"

\* tuningLevel == RocmlirTuningParamSetKindQuick
IsQuickLevel(tuningLevel) == tuningLevel = "Quick"

NoSplitK == [op |-> "none", gDim |-> 0, mDim |-> 0, nDim |-> 0, kDim |-> 0,
             numCUs |-> 0, tuningLevel |-> "", heuristic |-> "notcalled",
             ret |-> ""]

\* The call: at Quick it returns never at once; otherwise it returns what
\* rock::isSplitKFaster returns (heuristic records that result).
SplitKCall ==
  /\ \E g \in Dims, m \in Dims, n \in Dims, k \in Dims, cu \in Dims,
        level \in TuningLevels :
       LET args == [NoSplitK EXCEPT !.op = "mlirIsSplitKFaster", !.gDim = g,
                                    !.mDim = m, !.nDim = n, !.kDim = k,
                                    !.numCUs = cu, !.tuningLevel = level]
       IN  IF IsQuickLevel(level)
             THEN splitk' = [args EXCEPT !.ret = "never"]
             ELSE \E h \in isSplitKFasterResults(g, m, n, k, cu) :
                    splitk' = [args EXCEPT !.heuristic = h, !.ret = h]
  /\ UNCHANGED <<tableVars, wmma, enc>>

\* ------------------------------------------------------------------------
\* mlirRockTuningParamToString, mlirRockTuningGetKey
\* ------------------------------------------------------------------------
MaxStrLen == 3
MaxBufLen == 4

Chars == {"a", "b"}
NUL == "\\0"
Untouched == "?"

\* The canonical strings (perf-config strings, problem keys).
Strings == UNION {[1..n -> Chars] : n \in 0..MaxStrLen}

\* The caller's memory: bufLen bytes of buffer, then bytes that are not the
\* buffer's.
MemCells == 0..(MaxBufLen + 1)

FreshMem == [i \in MemCells |-> Untouched]

\* Mutant: the whole string is copied, as strcpy does.
strncpy_Unbounded(dst, src, n) ==
  [i \in DOMAIN dst |-> IF i < Len(src) THEN src[i + 1]
                        ELSE IF i = Len(src) THEN NUL ELSE dst[i]]

\* strncpy(dst, src, n): the first n characters of src, padded with NULs to n
\* when src is shorter.
strncpy(dst, src, n) ==
  [i \in DOMAIN dst |-> IF i < n
                          THEN (IF i < Len(src) THEN src[i + 1] ELSE NUL)
                          ELSE dst[i]]

\* (size_t)(-1)
SizeTMinusOne == -1

\* What rock::getTuningProblemStr may do: fail, or produce a key.
getTuningProblemStrResults ==
  {[ok |-> FALSE, str |-> <<>>]} \cup {[ok |-> TRUE, str |-> s] : s \in Strings}

NoEnc == [op |-> "none", produced |-> FALSE, str |-> <<>>, bufLen |-> 0,
          mem |-> FreshMem, ret |-> 0]

ParamToStringCall ==
  /\ \E perfConfig \in Strings, bufLen \in 0..MaxBufLen :
       enc' = [op |-> "mlirRockTuningParamToString", produced |-> TRUE,
               str |-> perfConfig, bufLen |-> bufLen,
               mem |-> strncpy(FreshMem, perfConfig, bufLen),
               ret |-> Len(perfConfig)]
  /\ UNCHANGED <<tableVars, wmma, splitk>>

GetKeyCall ==
  /\ \E r \in getTuningProblemStrResults, bufLen \in 0..MaxBufLen :
       IF ~r.ok
         THEN enc' = [op |-> "mlirRockTuningGetKey", produced |-> FALSE,
                      str |-> r.str, bufLen |-> bufLen, mem |-> FreshMem,
                      ret |-> SizeTMinusOne]
         ELSE enc' = [op |-> "mlirRockTuningGetKey", produced |-> TRUE,
                      str |-> r.str, bufLen |-> bufLen,
                      mem |-> strncpy(FreshMem, r.str, bufLen),
                      ret |-> Len(r.str)]
  /\ UNCHANGED <<tableVars, wmma, splitk>>

\* ------------------------------------------------------------------------
\* Specification of the table
\* ------------------------------------------------------------------------
OtherInit ==
  /\ wmma = NoWmma
  /\ splitk = NoSplitK
  /\ enc = NoEnc

TableInit(ws) ==
  /\ table = mlirRockTuningTableCreate
  /\ lock = LockFree
  /\ pc = [w \in ws |-> "idle"]
  /\ frame = [w \in ws |-> IdleFrame]
  /\ minTime = [x \in {} |-> 0]
  /\ committed = mlirRockTuningTableCreate

Init == TableInit(Workers) /\ OtherInit

Next ==
  \E w \in Workers :
       \/ UpdateCall(w)
       \/ UpdateLock(w)
       \/ UpdateReject(w)
       \/ UpdateSlot(w)
       \/ UpdateAssign(w)
       \/ UpdateUnlock(w)
       \/ UpdateReturn(w)
       \/ LookupCall(w)
       \/ LookupLock(w)
       \/ LookupUnlock(w)
       \/ Apply(w)
       \/ LookupReturn(w)

Spec == Init /\ [][Next]_vars

\* ------------------------------------------------------------------------
\* Specification of a race: every racer makes one call on the same signature,
\* an update with a time no other racer uses, or a lookup-and-apply.
\* ------------------------------------------------------------------------
IsUpdatePc(p) == p \in {"u_lock", "u_find", "u_assign", "u_unlock", "u_done"}

RaceUpdateCall(w) ==
  \E c \in Cfgs, t \in RaceTimes :
    /\ \A u \in Racers \ {w} : IsUpdatePc(pc[u]) => frame[u].time # t
    /\ UpdateCallWith(w, RaceSig, c, t)

RaceLookupCall(w) ==
  /\ LookupCall(w)
  /\ frame'[w].call.signature = RaceSig

RaceInit == TableInit(Racers) /\ OtherInit

RaceNext ==
  \E w \in Racers :
       \/ RaceUpdateCall(w)
       \/ UpdateLock(w)
       \/ UpdateReject(w)
       \/ UpdateSlot(w)
       \/ UpdateAssign(w)
       \/ UpdateUnlock(w)
       \/ RaceLookupCall(w)
       \/ LookupLock(w)
       \/ LookupUnlock(w)
       \/ Apply(w)

SpecRace == RaceInit /\ [][RaceNext]_vars

\* ------------------------------------------------------------------------
\* Specifications of the stateless calls
\* ------------------------------------------------------------------------
NoTableInit == TableInit({}) /\ OtherInit

WmmaNext == SelectCall \/ IsCoherentWithKCall

WmmaInit ==
  /\ TableInit({})
  /\ wmma \in SelectQueries
  /\ splitk = NoSplitK
  /\ enc = NoEnc

SpecWmma == WmmaInit /\ [][WmmaNext]_vars

SplitKNext == SplitKCall

SpecSplitK == NoTableInit /\ [][SplitKNext]_vars

EncNext == ParamToStringCall \/ GetKeyCall

SpecEnc == NoTableInit /\ [][EncNext]_vars

\* ------------------------------------------------------------------------
\* Properties of the performance table
\* ------------------------------------------------------------------------

\* C1: an update whose signature has no entry inserts (candidateString, time)
\* and returns true; one whose signature has an entry replaces it and
\* returns true when its time is strictly smaller than the stored time, and
\* returns false, leaving the entry as it was, when its time is equal or
\* larger.  Stated where the call has decided and still holds the lock:
\* committed is the table before the call, table the table after it.
C1_UpdateContract ==
  \A w \in DOMAIN pc :
    pc[w] = "u_unlock" =>
      LET c == frame[w].call
          before == Find(committed, c.signature)
          after == Find(table, c.signature)
      IN  /\ before = NoEntry =>
               frame[w].ret /\ after = Entry(c.candidateString, c.time)
          /\ (before # NoEntry /\ c.time < before.time) =>
               frame[w].ret /\ after = Entry(c.candidateString, c.time)
          /\ (before # NoEntry /\ c.time >= before.time) =>
               ~frame[w].ret /\ after = before
          /\ \A s \in (DOMAIN table \cup DOMAIN committed) \ {c.signature} :
               Find(table, s) = Find(committed, s)

\* A replacement: the signature had an entry with a larger time.
C1_Witness ==
  \E w \in DOMAIN pc :
    /\ pc[w] = "u_unlock"
    /\ frame[w].call.signature \in DOMAIN committed
    /\ frame[w].call.time < committed[frame[w].call.signature].time
    /\ frame[w].ret

InFlightUpdate(w) == pc[w] \in {"u_lock", "u_find", "u_assign", "u_unlock"}

DoneUpdates == {w \in DOMAIN pc : pc[w] = "u_done"}

\* C2: racers update the same signature with pairwise distinct times; once
\* no update is in flight, the entry is the (candidateString, time) of the
\* update with the smallest time, whatever the order of arrival.
C2_RaceKeepsMinimum ==
  ((\A w \in DOMAIN pc : ~InFlightUpdate(w)) /\ DoneUpdates # {}) =>
    \E w \in DoneUpdates :
      /\ \A u \in DoneUpdates : frame[w].call.time <= frame[u].call.time
      /\ Find(table, RaceSig) =
           Entry(frame[w].call.candidateString, frame[w].call.time)

\* Every racer has updated: one inserted, one replaced, one was rejected.
C2_Witness ==
  /\ \A w \in DOMAIN pc : pc[w] = "u_done"
  /\ Cardinality({w \in DOMAIN pc : frame[w].ret}) >= 2
  /\ \E w \in DOMAIN pc : ~frame[w].ret

\* C3: a lookup racing with updates of its signature returns what the last
\* completed update left (the value before every update still in flight),
\* NotFound if none has completed; a string it returns is the candidate of
\* an update that has returned true.
C3_LookupSeesCommitted ==
  \A w \in DOMAIN pc :
    pc[w] = "l_held" =>
      LET sig == frame[w].call.signature IN
        IF sig \in DOMAIN committed
          THEN /\ frame[w].ok
               /\ frame[w].perfConfig = committed[sig].perfConfig
               /\ \E u \in DoneUpdates :
                    /\ frame[u].ret
                    /\ frame[u].call.candidateString = frame[w].perfConfig
          ELSE ~frame[w].ok

\* A lookup that hit while an update of the same signature is in flight.
C3_Witness ==
  \E w, u \in DOMAIN pc :
    /\ pc[w] = "l_held"
    /\ frame[w].ok
    /\ pc[u] = "u_lock"
    /\ frame[u].call.time < committed[RaceSig].time

TableChangedByUpdate ==
  table' # table =>
    \E w \in DOMAIN pc : pc[w] \in {"u_find", "u_assign"} /\ pc'[w] # pc[w]

TableQuiescent ==
  lock.writer = NoWorker =>
    /\ table = committed
    /\ DOMAIN table = DOMAIN minTime
    /\ \A s \in DOMAIN table : table[s].time = minTime[s]

\* C4: the table is empty when created; no entry is ever removed; between
\* updates the stored time of a signature never increases; only update
\* changes the table; and outside an update the stored time of a signature
\* is the smallest time submitted for it.
C4_TableGrowsMonotonically ==
  /\ DOMAIN table = {}
  /\ [][DOMAIN table \subseteq DOMAIN table']_vars
  /\ [][\A s \in DOMAIN committed :
          s \in DOMAIN committed' /\ committed'[s].time <= committed[s].time]_vars
  /\ [][TableChangedByUpdate]_vars
  /\ []TableQuiescent

\* Both signatures have entries, an update was rejected and a lookup is over.
C4_Witness ==
  /\ DOMAIN table = Sigs
  /\ lock.writer = NoWorker
  /\ \E w, u \in DOMAIN pc :
       /\ pc[w] = "u_done" /\ ~frame[w].ret
       /\ pc[u] = "l_done" /\ frame[u].ret

\* C5: lookup-and-apply misses exactly when no update of the signature has
\* completed, and then returns failure without calling apply; on a hit it
\* applies the stored string and returns success exactly when apply does.
C5_LookupThenApply ==
  \A w \in DOMAIN pc :
    /\ pc[w] = "l_held" =>
         (frame[w].ok <=> frame[w].call.signature \in DOMAIN minTime)
    /\ pc[w] = "l_apply" => frame[w].ok /\ frame[w].setStr = "notcalled"
    /\ pc[w] = "l_done" =>
         IF frame[w].ok
           THEN /\ frame[w].setStr # "notcalled"
                /\ frame[w].applied = frame[w].perfConfig
                /\ frame[w].applied \in Cfgs
                /\ frame[w].ret <=> frame[w].setStr = "success"
           ELSE /\ frame[w].setStr = "notcalled"
                /\ ~frame[w].ret

\* One worker missed and returned failure, the other hit and apply failed.
C5_Witness ==
  \E w, u \in DOMAIN pc :
    /\ pc[w] = "l_done" /\ ~frame[w].ok /\ ~frame[w].ret
    /\ pc[u] = "l_done" /\ frame[u].ok /\ frame[u].setStr = "failure"

\* ------------------------------------------------------------------------
\* Properties of the instruction group selector
\* ------------------------------------------------------------------------
IsMultipleOf16(x) == \E q \in -MaxTileOctets..MaxTileOctets : x = 16 * q

IsWmmaOperandType(t) ==
  t = F16 \/ t = BF16 \/ (t.kind = "int" /\ t.width = 8)

\* C6: select returns Unsupported exactly when the operand types differ, or
\* the wave size is not 32, or tileM or tileN is no exact multiple of 16, or
\* the operand type is none of f16, bf16 and 8-bit integer; otherwise it
\* returns a descriptor.
C6_SelectRejects ==
  wmma.op = "select" =>
    (~wmma.insn.ok <=>
       \/ wmma.a # wmma.b
       \/ wmma.waveSize # 32
       \/ ~IsMultipleOf16(wmma.mPerWave)
       \/ ~IsMultipleOf16(wmma.nPerWave)
       \/ ~IsWmmaOperandType(wmma.a))

\* select(f16, bf16, 32, 64, 64) has returned Unsupported.
C6_Witness ==
  /\ wmma.op = "select"
  /\ wmma.a = F16 /\ wmma.b = BF16 /\ wmma.waveSize = 32
  /\ wmma.mPerWave = 64 /\ wmma.nPerWave = 64
  /\ ~wmma.insn.ok

\* C7: a descriptor returned by select has inputLen 16, outLen 8, outStride
\* 2, mRepeats * 16 = tileM, nRepeats * 16 = tileN, operand vectors of 16
\* elements of the operand type, a result vector of 8 elements of i32 for
\* 8-bit integer operands and of f32 otherwise, and the instruction of the
\* operand type.
C7_DescriptorFields ==
  (wmma.op = "select" /\ wmma.insn.ok) =>
    LET d == wmma.insn IN
      /\ d.inputLen = 16 /\ d.outLen = 8 /\ d.outStride = 2
      /\ d.mRepeats * 16 = wmma.mPerWave
      /\ d.nRepeats * 16 = wmma.nPerWave
      /\ d.argTypeA = [shape |-> <<16>>, elementType |-> wmma.a]
      /\ d.argTypeB = [shape |-> <<16>>, elementType |-> wmma.b]
      /\ d.retType.shape = <<8>>
      /\ d.retType.elementType =
           IF wmma.a.kind = "int" /\ wmma.a.width = 8 THEN I32 ELSE F32
      /\ wmma.a = F16 => d.insn = "rocdl.wmma.f32.16x16x16.f16"
      /\ wmma.a = BF16 => d.insn = "rocdl.wmma.f32.16x16x16.bf16"
      /\ (wmma.a.kind = "int" /\ wmma.a.width = 8) =>
           d.insn = "rocdl.wmma.i32.16x16x16.iu8"

\* select(i8, i8, 32, 32, 16) has returned a descriptor with 2 and 1 repeats.
C7_Witness ==
  /\ wmma.op = "select"
  /\ wmma.a = I8 /\ wmma.b = I8 /\ wmma.waveSize = 32
  /\ wmma.mPerWave = 32 /\ wmma.nPerWave = 16
  /\ wmma.insn.ok
  /\ wmma.insn.mRepeats = 2 /\ wmma.insn.nRepeats = 1

C8_SplitKQuickIsNever ==
  splitk.op = "mlirIsSplitKFaster" =>
    /\ splitk.tuningLevel = "Quick" =>
         splitk.ret = "never" /\ splitk.heuristic = "notcalled"
    /\ splitk.tuningLevel \in {"Full", "Exhaustive"} =>
         /\ splitk.heuristic \in {"never", "maybe", "always"}
         /\ splitk.ret = splitk.heuristic

\* A Quick call on the largest dimensions has returned never.
C8_Witness ==
  /\ splitk.op = "mlirIsSplitKFaster"
  /\ splitk.tuningLevel = "Quick"
  /\ splitk.kDim = MaxDim /\ splitk.numCUs = 1
  /\ splitk.ret = "never"

\* ------------------------------------------------------------------------
\* Properties of the textual encodings
\* ------------------------------------------------------------------------
MinLen(a, b) == IF a <= b THEN a ELSE b

\* The call returned the length of the string, wrote its first
\* min(length, bufLen) characters, and nothing at bufLen or beyond.
ReportsLengthAndPrefix ==
  /\ enc.ret = Len(enc.str)
  /\ \A i \in MemCells :
       i < MinLen(Len(enc.str), enc.bufLen) => enc.mem[i] = enc.str[i + 1]
  /\ \A i \in MemCells : i >= enc.bufLen => enc.mem[i] = Untouched

\* C10 as stated: every encoding call returns the true length of the
\* canonical string and writes its first min(length, bufLen) characters,
\* only to positions 0 .. bufLen-1.
C10_AsStated == enc.op # "none" => ReportsLengthAndPrefix

\* C10, amended: so it is whenever the string is produced; when the workload
\* signature of the program cannot be computed, the key call returns
\* (size_t)(-1) and writes nothing.
C10_BufferContract ==
  enc.op # "none" =>
    IF enc.produced
      THEN ReportsLengthAndPrefix
      ELSE /\ enc.op = "mlirRockTuningGetKey"
           /\ enc.ret = SizeTMinusOne
           /\ enc.mem = FreshMem

\* A string longer than the buffer: the length is reported, the buffer is full.
C10_Witness ==
  /\ enc.op = "mlirRockTuningParamToString"
  /\ enc.bufLen = 2
  /\ Len(enc.str) = 3
  /\ enc.ret = 3
  /\ enc.mem[1] = enc.str[2]

====
